---- MODULE Spec2Model ----
(***************************************************************************)
(* A model of the AI research agent: the retry loop of run_research        *)
(* (src/src/agents/crew_manager.py) and the Pinecone data-access layer     *)
(* (src/src/pinecone_ops/operations.py): ResearchJobManager over the       *)
(* 'jobs' namespace of the job index and ContentManager over the           *)
(* per-job namespaces of the content index.                                *)
(*                                                                         *)
(* The specifications share the variables:                                 *)
(*   SpecRetry    one invocation of run_research, step by step;            *)
(*   SpecJobs     create_job and update_job_status, called one after the   *)
(*                other (each call one action);                            *)
(*   SpecHistory  create_job and the two get_job_history;                  *)
(*   SpecUpdates  two clients calling update_job_status at once, every     *)
(*                call split at its two requests to the vector store;      *)
(*   SpecContent  store_source / get_job_sources;                          *)
(*   SpecLifecycle  every operation on the job index, cleanup_old_data     *)
(*                included, from an empty index;                           *)
(*   SpecQueries  the query operations of both managers;                   *)
(*   SpecTools    the search and scraper tools;                            *)
(*   SpecErrors   handle_error;                                            *)
(*   SpecPage     submissions of the Streamlit page.                       *)
(***************************************************************************)
EXTENDS Integers, Sequences, FiniteSets, TLC

VARIABLES
    rr,          \* run_research: its position, loop counter and outcome
    events,      \* run_research: the sleeps, kickoffs and failures so far
    clock,       \* the last reading datetime.now() gave
    jobIndex,    \* job_index: <<namespace, job id>> -> metadata
    calls,       \* how many calls that write to an index were made
    ret,         \* the last call: its name, arguments and result
    upd,         \* SpecUpdates: each client's update_job_status in flight
    log,         \* SpecUpdates: the upserts made so far and who made the last
    contentIndex, \* content_index: <<namespace, source id>> -> metadata
    created,     \* the create_job calls that returned, in order
    scraped,     \* the scraper tool: URL -> the text it returned for it
    ui           \* the Streamlit session and what the page last reported

vars ==
    <<rr, events, clock, jobIndex, calls, ret, upd, log, contentIndex, created,
      scraped, ui>>

\* Python's None, for an optional argument that was not supplied.
None == "None"

(***************************************************************************)
(* run_research                                                            *)
(***************************************************************************)

initial_cooldown == 15
max_retries == 2
retry_delay == 60

\* str(e).lower() of the exception kickoff raised, reduced to the four
\* substring tests run_research applies to it.
ErrorStrs ==
    [rate_limit : BOOLEAN, ratelimit : BOOLEAN,
     none_or_empty : BOOLEAN, invalid_response : BOOLEAN]

Reports == {"report1", "report2"}

\* A faulty IsRateLimit: every error is taken for a rate-limit error.
IsRateLimitAll(error_str) == TRUE

\* 'rate_limit' in error_str or 'ratelimit' in error_str
IsRateLimit(error_str) == error_str.rate_limit \/ error_str.ratelimit

\* 'none or empty' in error_str or 'invalid response' in error_str
IsEmptyResponse(error_str) ==
    error_str.none_or_empty \/ error_str.invalid_response

\* A faulty HasAttemptLeft: the bound is off by one.
HasAttemptLeftOffByOne(attempt) == attempt < max_retries

\* "if attempt < max_retries - 1": another attempt follows this failure.
HasAttemptLeft(attempt) == attempt < max_retries - 1

Sleep(seconds) == [kind |-> "sleep", seconds |-> seconds]
KickoffEv(attempt) == [kind |-> "kickoff", attempt |-> attempt]
FailEv(attempt, e) == [kind |-> "fail", attempt |-> attempt, error |-> e]

RRIdle == [pc |-> "idle", attempt |-> 0, error |-> None, result |-> None]

\* create_crew, then the initial cooldown, then the loop starts at attempt 0.
RunResearch ==
    /\ rr.pc = "idle"
    /\ rr' = [rr EXCEPT !.pc = "try", !.attempt = 0]
    /\ events' = Append(events, Sleep(initial_cooldown))
    /\ UNCHANGED <<clock, jobIndex, calls, ret, upd, log, contentIndex,
                   created, scraped, ui>>

\* The head of the try block: "if attempt > 0: time.sleep(retry_delay)".
AttemptCooldown ==
    /\ rr.pc = "try"
    /\ rr' = [rr EXCEPT !.pc = "kickoff"]
    /\ events' = IF rr.attempt > 0 THEN Append(events, Sleep(retry_delay))
                 ELSE events
    /\ UNCHANGED <<clock, jobIndex, calls, ret, upd, log, contentIndex,
                   created, scraped, ui>>

\* crew.kickoff returns the report: run_research returns it.
KickoffReturns ==
    /\ rr.pc = "kickoff"
    /\ \E r \in Reports :
          rr' = [rr EXCEPT !.pc = "returned", !.result = r]
    /\ events' = Append(events, KickoffEv(rr.attempt))
    /\ UNCHANGED <<clock, jobIndex, calls, ret, upd, log, contentIndex,
                   created, scraped, ui>>

\* crew.kickoff raises: control passes to the except clause.
KickoffRaises ==
    /\ rr.pc = "kickoff"
    /\ \E e \in ErrorStrs :
          /\ rr' = [rr EXCEPT !.pc = "except", !.error = e]
          /\ events' = events \o <<KickoffEv(rr.attempt), FailEv(rr.attempt, e)>>
    /\ UNCHANGED <<clock, jobIndex, calls, ret, upd, log, contentIndex,
                   created, scraped, ui>>

\* The for loop's step after an except clause that did not raise: the next
\* attempt, or, with the range used up, the end of the function (None).
NextAttempt(r) ==
    IF r.attempt + 1 < max_retries
    THEN [r EXCEPT !.pc = "try", !.attempt = r.attempt + 1]
    ELSE [r EXCEPT !.pc = "returned", !.result = None]

\* The except clause: a rate-limit or empty-response error is followed by a
\* cooldown and the next attempt while one is left, and raised otherwise; any
\* other error is raised.
Except ==
    /\ rr.pc = "except"
    /\ IF IsRateLimit(rr.error)
       THEN IF HasAttemptLeft(rr.attempt)
            THEN /\ events' = Append(events, Sleep(retry_delay))
                 /\ rr' = NextAttempt(rr)
            ELSE /\ events' = events
                 /\ rr' = [rr EXCEPT !.pc = "raised"]
       ELSE IF IsEmptyResponse(rr.error)
       THEN IF HasAttemptLeft(rr.attempt)
            THEN /\ events' = Append(events, Sleep(retry_delay))
                 /\ rr' = NextAttempt(rr)
            ELSE /\ events' = events
                 /\ rr' = [rr EXCEPT !.pc = "raised"]
       ELSE /\ events' = events
            /\ rr' = [rr EXCEPT !.pc = "raised"]
    /\ UNCHANGED <<clock, jobIndex, calls, ret, upd, log, contentIndex,
                   created, scraped, ui>>

(***************************************************************************)
(* The vector store                                                        *)
(*                                                                         *)
(* An index maps <<namespace, id>> to the metadata stored with the vector. *)
(* The vector itself is left out: it only ranks the matches of a query,    *)
(* and a query is modelled as returning any ranking of any matching        *)
(* records, top_k of them at most.                                         *)
(***************************************************************************)

MaxClock == 2
MaxCalls == 2
MaxLimit == 2
JobHashSpace == 4
UrlHashSpace == 2
BlockChars == 500

EmptyIndex == <<>>

Min(a, b) == IF a < b THEN a ELSE b

\* index.upsert(vectors=[{id, values, metadata}], namespace): insert or overwrite.
Upsert(index, namespace, id, metadata) ==
    [k \in DOMAIN index \cup {<<namespace, id>>} |->
        IF k = <<namespace, id>> THEN metadata ELSE index[k]]

\* index.fetch(ids=[id], namespace): the record, or nothing; an optional value
\* is a sequence of length 0 or 1.
Fetch(index, namespace, id) ==
    IF <<namespace, id>> \in DOMAIN index THEN <<index[<<namespace, id>>]>> ELSE <<>>

\* The similarity score of the match at a rank, in thousandths: the matches
\* come in descending order of score.
ScoreAt(rank) == 1000 - 100 * rank

\* The sequences without repetition over S of length at most n.
Rankings(S, n) ==
    {s \in UNION {[1..m -> S] : m \in 0..Min(n, Cardinality(S))} :
        \A i, j \in 1..Len(s) : s[i] = s[j] => i = j}

\* No filter is given to the query.
NoFilter == <<>>

\* A filter {field: {'$eq': value}, ...} is the record of the values asked
\* for; a record passes when it has them all.
Passes(metadata, filter) == \A f \in DOMAIN filter : metadata[f] = filter[f]

\* index.query(vector, top_k, include_metadata=True, namespace, filter): the
\* possible responses, each a sequence of matches {id, score, metadata} taken
\* from the records of the namespace that pass the filter.
Query(index, namespace, filter, top_k) ==
    LET ids == {k \in DOMAIN index :
                   k[1] = namespace /\ Passes(index[k], filter)}
    IN  {[i \in 1..Len(r) |->
             [id |-> r[i][2], score |-> ScoreAt(i), metadata |-> index[r[i]]]] :
         r \in Rankings(ids, top_k)}

HexDigits == <<"0", "1", "2", "3", "4", "5", "6", "7", "8", "9">>

\* hashlib.md5(text.encode()).hexdigest()[:n]: a fixed function of the text
\* onto a finite set of digests, so distinct texts may share a digest. The
\* text is given by a number that identifies it and the digest space is scaled
\* down to `space` values.
Md5Hex(code, space) == HexDigits[(code % space) + 1]

Topics == {"t1", "t2"}
Users == {"anonymous", "u1"}

TopicCode(topic) == IF topic = "t1" THEN 1 ELSE 2

\* The text f"{job_type}_{topic}_{timestamp}" as a number, one per (topic,
\* timestamp); job_type is always 'research'.
JobIdText(job_type, topic, timestamp) ==
    TopicCode(topic) + Cardinality(Topics) * timestamp

\* _generate_job_id, with the reading of datetime.now() it makes.
GenerateJobId(topic, job_type, timestamp) ==
    Md5Hex(JobIdText(job_type, topic, timestamp), JobHashSpace)

\* A faulty NamespaceOf: the job id is left out.
NamespaceShared(job_id) == "job_"

\* f"job_{job_id}"
NamespaceOf(job_id) == "job_" \o job_id

\* The readings datetime.now() gives during one call: a call is taken to be
\* instantaneous, and time passes between two calls.
Now == {clock}

Tick ==
    /\ clock < MaxClock
    /\ clock' = clock + 1
    /\ UNCHANGED <<rr, events, jobIndex, calls, ret, upd, log, contentIndex,
                   created, scraped, ui>>

NoCall == [op |-> "none"]

\* The caller takes the result of the last call; the next call can start.
Return ==
    /\ ret # NoCall
    /\ ret' = NoCall
    /\ UNCHANGED <<rr, events, clock, jobIndex, calls, upd, log,
                   contentIndex, created, scraped, ui>>

\* A call is given what it fails at: "none", the embedding model ("embed")
\* or a request to the vector store ("fetch", "upsert", "query"), each of
\* which raises an exception.

(***************************************************************************)
(* ResearchJobManager                                                      *)
(***************************************************************************)

\* A faulty JobMetadata: the user id is not taken from the argument.
JobMetadataNoUser(job_id, topic, user_id, created_at, updated_at) ==
    [job_id |-> job_id, topic |-> topic, user_id |-> "anonymous",
     job_type |-> "research", status |-> "pending",
     created_at |-> created_at, updated_at |-> updated_at,
     namespace |-> "job_" \o job_id, source_count |-> 0,
     processing_time_seconds |-> 0, report |-> "", error_message |-> ""]

\* The job_metadata dictionary create_job builds.
JobMetadata(job_id, topic, user_id, created_at, updated_at) ==
    [job_id |-> job_id, topic |-> topic, user_id |-> user_id,
     job_type |-> "research", status |-> "pending",
     created_at |-> created_at, updated_at |-> updated_at,
     namespace |-> NamespaceOf(job_id), source_count |-> 0,
     processing_time_seconds |-> 0, report |-> "", error_message |-> ""]

\* create_job(topic, user_id), reading the clock at t0 (job id), t1
\* (created_at) and t2 (updated_at). An exception from the embedding or from
\* the upsert propagates to the caller and nothing is stored.
CreateJob(topic, user_id, t0, t1, t2, fail) ==
    LET job_id == GenerateJobId(topic, "research", t0)
        metadata == JobMetadata(job_id, topic, user_id, t1, t2)
    IN  /\ ret = NoCall
        /\ calls < MaxCalls
        /\ t0 <= t1 /\ t1 <= t2
        /\ clock' = t2
        /\ calls' = calls + 1
        /\ IF fail = "none"
           THEN /\ jobIndex' = Upsert(jobIndex, "jobs", job_id, metadata)
                /\ created' = Append(created, [job_id |-> job_id, topic |-> topic,
                                               timestamp |-> t0])
                /\ ret' = [op |-> "create_job", topic |-> topic,
                           user_id |-> user_id, timestamp |-> t0,
                           raised |-> FALSE,
                           value |-> [job_id |-> job_id,
                                      namespace |-> NamespaceOf(job_id)]]
           ELSE /\ jobIndex' = jobIndex
                /\ created' = created
                /\ ret' = [op |-> "create_job", topic |-> topic,
                           user_id |-> user_id, timestamp |-> t0,
                           raised |-> TRUE, value |-> None]

\* PineconeOperations.create_research_job delegates to create_job.
CreateResearchJob ==
    /\ \E topic \in Topics, user_id \in Users, t0, t1, t2 \in Now,
          fail \in {"none", "embed", "upsert"} :
          CreateJob(topic, user_id, t0, t1, t2, fail)
    /\ UNCHANGED <<rr, events, upd, log, contentIndex, scraped, ui>>

\* A faulty GetJob: a job that is not stored is given as a fresh record.
GetJobOrFresh(index, job_id, fail) ==
    IF fail = "fetch" THEN <<>>
    ELSE IF Fetch(index, "jobs", job_id) = <<>>
    THEN <<JobMetadata(job_id, "t1", "anonymous", 0, 0)>>
    ELSE Fetch(index, "jobs", job_id)

\* get_job(job_id): the stored record, or nothing when there is none or the
\* fetch raised (the exception is caught and None returned).
GetJob(index, job_id, fail) ==
    IF fail = "fetch" THEN <<>> ELSE Fetch(index, "jobs", job_id)

\* An optional argument is <<>> when not supplied (None) and <<v>> otherwise.
\* "if report:" holds for a supplied, non-empty string.
Truthy(opt) == opt # <<>> /\ opt[1] # ""

\* "if source_count is not None:"
IsNotNone(opt) == opt # <<>>

\* The arguments of update_job_status after job_id.
UpdateArgs ==
    {[status |-> "complete", report |-> <<"r1">>, error_message |-> <<>>,
      source_count |-> <<>>],
     [status |-> "complete", report |-> <<"r2">>, error_message |-> <<>>,
      source_count |-> <<3>>],
     [status |-> "complete", report |-> <<"">>, error_message |-> <<>>,
      source_count |-> <<0>>],
     [status |-> "error", report |-> <<>>, error_message |-> <<"e1">>,
      source_count |-> <<>>],
     [status |-> "error", report |-> <<>>, error_message |-> <<"">>,
      source_count |-> <<>>],
     [status |-> "pending", report |-> <<>>, error_message |-> <<>>,
      source_count |-> <<>>]}

\* A faulty Merge: a field that is not supplied is reset, not kept.
MergeDroppingRest(old, a, now) ==
    [old EXCEPT !.status = a.status, !.updated_at = now,
                !.report = IF Truthy(a.report) THEN a.report[1] ELSE "",
                !.error_message =
                    IF Truthy(a.error_message) THEN a.error_message[1] ELSE "",
                !.source_count =
                    IF IsNotNone(a.source_count) THEN a.source_count[1] ELSE 0]

\* updated_metadata: a copy of the fetched metadata with the status and
\* updated_at replaced, and report, error_message and source_count replaced
\* when the argument passes its test.
Merge(old, a, now) ==
    [old EXCEPT !.status = a.status, !.updated_at = now,
                !.report = IF Truthy(a.report) THEN a.report[1] ELSE @,
                !.error_message =
                    IF Truthy(a.error_message) THEN a.error_message[1] ELSE @,
                !.source_count =
                    IF IsNotNone(a.source_count) THEN a.source_count[1] ELSE @]

\* The job ids a caller may pass: every digest, and one that is no digest.
JobIdArgs == {HexDigits[i] : i \in 1..JobHashSpace} \cup {"nojob"}

UpdateRet(job_id, a, value) ==
    [op |-> "update_job_status", job_id |-> job_id, args |-> a, value |-> value]

\* update_job_status(job_id, status, report, error_message, source_count),
\* reading the clock at `now`. Every exception is caught and False returned.
UpdateJobStatus(job_id, a, now, fail) ==
    LET job_data == GetJob(jobIndex, job_id, fail)
    IN  /\ ret = NoCall
        /\ calls < MaxCalls
        /\ calls' = calls + 1
        /\ IF job_data = <<>>
           THEN /\ jobIndex' = jobIndex
                /\ clock' = clock
                /\ ret' = UpdateRet(job_id, a, FALSE)
           ELSE /\ clock' = now
                /\ IF fail \in {"embed", "upsert"}
                   THEN /\ jobIndex' = jobIndex
                        /\ ret' = UpdateRet(job_id, a, FALSE)
                   ELSE /\ jobIndex' = Upsert(jobIndex, "jobs", job_id,
                                              Merge(job_data[1], a, now))
                        /\ ret' = UpdateRet(job_id, a, TRUE)

\* PineconeOperations.update_research_job delegates to update_job_status.
UpdateResearchJob ==
    /\ \E job_id \in JobIdArgs, a \in UpdateArgs, now \in Now,
          fail \in {"none", "fetch", "embed", "upsert"} :
          UpdateJobStatus(job_id, a, now, fail)
    /\ UNCHANGED <<rr, events, upd, log, contentIndex, created, scraped, ui>>

\* job_data['score'] = match['score']: the metadata with one more key.
WithKey(metadata, key, v) ==
    [f \in DOMAIN metadata \cup {key} |-> IF f = key THEN v ELSE metadata[f]]

WithoutKey(metadata, key) == [f \in DOMAIN metadata \ {key} |-> metadata[f]]

\* sorted(): the element x put into the descending list `sorted`, behind the elements
\* whose created_at is not smaller (the sort is stable).
InsertDesc(sorted, x) ==
    LET k == Cardinality({i \in 1..Len(sorted) :
                             sorted[i].created_at >= x.created_at})
    IN  SubSeq(sorted, 1, k) \o <<x>> \o SubSeq(sorted, k + 1, Len(sorted))

\* A faulty sort: reverse=True is missing.
RECURSIVE SortAscending(_)
SortAscending(jobs) ==
    IF jobs = <<>> THEN <<>>
    ELSE LET rest == SortAscending(SubSeq(jobs, 1, Len(jobs) - 1))
             x == jobs[Len(jobs)]
             k == Cardinality({i \in 1..Len(rest) :
                                  rest[i].created_at <= x.created_at})
         IN  SubSeq(rest, 1, k) \o <<x>> \o SubSeq(rest, k + 1, Len(rest))

\* jobs.sort(key=lambda x: x['created_at'], reverse=True)
RECURSIVE SortByCreatedAtDesc(_)
SortByCreatedAtDesc(jobs) ==
    IF jobs = <<>> THEN <<>>
    ELSE InsertDesc(SortByCreatedAtDesc(SubSeq(jobs, 1, Len(jobs) - 1)),
                    jobs[Len(jobs)])

\* The filter of the history query: job_type 'research', and the user's jobs
\* when a user id is given ("if not user_id" drops None and '').
HistoryFilter(user_id) ==
    IF ~Truthy(user_id) THEN [job_type |-> "research"]
    ELSE [job_type |-> "research", user_id |-> user_id[1]]

\* ResearchJobManager.get_job_history(user_id, limit): the lists it can
\* return. A failure of the embedding or of the query is caught: [].
GetJobHistory(index, user_id, limit, fail) ==
    IF fail # "none" THEN {<<>>}
    ELSE {SortByCreatedAtDesc(
              [i \in 1..Len(response) |->
                  WithKey(response[i].metadata, "score", response[i].score)]) :
          response \in Query(index, "jobs", HistoryFilter(user_id), limit)}

\* all_jobs[:limit]
Take(s, n) == SubSeq(s, 1, Min(n, Len(s)))

\* PineconeOperations.get_job_history(user_id, limit): the manager's list,
\* sorted again and cut to limit.
OpsGetJobHistory(index, user_id, limit, fail) ==
    {Take(SortByCreatedAtDesc(research_jobs), limit) :
        research_jobs \in GetJobHistory(index, user_id, limit, fail)}

UserIdArgs == {<<>>, <<"">>, <<"u1">>}

Limits == 1..MaxLimit

\* The result of a history call, with a note of what the call failed at.
HistoryRet(op, user_id, limit, fail, value) ==
    [op |-> op, user_id |-> user_id, limit |-> limit, fail |-> fail,
     value |-> value]

\* A call of ResearchJobManager.get_job_history.
ManagerJobHistory ==
    /\ ret = NoCall
    /\ \E user_id \in UserIdArgs, limit \in Limits,
          fail \in {"none", "embed", "query"} :
          \E value \in GetJobHistory(jobIndex, user_id, limit, fail) :
             ret' = HistoryRet("get_job_history", user_id, limit, fail, value)
    /\ UNCHANGED <<rr, events, clock, jobIndex, calls, upd, log,
                   contentIndex, created, scraped, ui>>

\* A call of PineconeOperations.get_job_history.
OpsJobHistory ==
    /\ ret = NoCall
    /\ \E user_id \in UserIdArgs, limit \in Limits,
          fail \in {"none", "embed", "query"} :
          \E value \in OpsGetJobHistory(jobIndex, user_id, limit, fail) :
             ret' = HistoryRet("ops_get_job_history", user_id, limit, fail,
                               value)
    /\ UNCHANGED <<rr, events, clock, jobIndex, calls, upd, log,
                   contentIndex, created, scraped, ui>>

\* A call of get_job(job_id): the record, or None (<<>>).
GetJobCall ==
    /\ ret = NoCall
    /\ \E job_id \in JobIdArgs, fail \in {"none", "fetch"} :
          ret' = [op |-> "get_job", job_id |-> job_id, fail |-> fail,
                  value |-> GetJob(jobIndex, job_id, fail)]
    /\ UNCHANGED <<rr, events, clock, jobIndex, calls, upd, log, contentIndex,
                   created, scraped, ui>>

\* What a query operation does: it raises or returns a list.
Returned(value) == [raised |-> FALSE, value |-> value]
Raised == [raised |-> TRUE, value |-> <<>>]

\* A search_jobs_by_topic without the try statement.
SearchJobsByTopicUncaught(index, search_topic, limit, fail) ==
    IF fail # "none" THEN {Raised}
    ELSE {Returned([i \in 1..Len(response) |->
                       WithKey(response[i].metadata, "similarity_score",
                               response[i].score)]) :
          response \in Query(index, "jobs", NoFilter, limit)}

\* search_jobs_by_topic(search_topic, limit): the matches in the order of the
\* response, each with its score. A failure of the embedding or of the query
\* is caught: [].
SearchJobsByTopic(index, search_topic, limit, fail) ==
    IF fail # "none" THEN {Returned(<<>>)}
    ELSE {Returned([i \in 1..Len(response) |->
                       WithKey(response[i].metadata, "similarity_score",
                               response[i].score)]) :
          response \in Query(index, "jobs", NoFilter, limit)}

SearchJobsByTopicCall ==
    /\ ret = NoCall
    /\ \E search_topic \in Topics, limit \in Limits,
          fail \in {"none", "embed", "query"} :
          \E out \in SearchJobsByTopic(jobIndex, search_topic, limit, fail) :
             ret' = [op |-> "search_jobs_by_topic", search_topic |-> search_topic,
                     limit |-> limit, fail |-> fail, raised |-> out.raised,
                     value |-> out.value]
    /\ UNCHANGED <<rr, events, clock, jobIndex, calls, upd, log, contentIndex,
                   created, scraped, ui>>

\* A cleanup that deletes: the records created before the cutoff are removed.
CleanupDeleting(index, cutoff_date) ==
    [k \in {j \in DOMAIN index : index[j].created_at >= cutoff_date} |-> index[k]]

\* The body of cleanup_old_data after the cutoff date is computed: "pass".
CleanupStore(index, cutoff_date) == index

DaysOld == {0, 7}

\* PineconeOperations.cleanup_old_data(days_old)
CleanupOldData ==
    /\ ret = NoCall
    /\ \E days_old \in DaysOld :
          LET cutoff_date == clock - days_old
          IN  /\ jobIndex' = CleanupStore(jobIndex, cutoff_date)
              /\ ret' = [op |-> "cleanup_old_data", days_old |-> days_old,
                         cutoff_date |-> cutoff_date, value |-> None]
    /\ UNCHANGED <<rr, events, clock, calls, upd, log, contentIndex, created,
                   scraped, ui>>

(***************************************************************************)
(* update_job_status called by two clients at once. A call makes two       *)
(* requests to the vector store, the fetch of get_job and the upsert, and  *)
(* another client's request can come between them.                         *)
(***************************************************************************)

Clients == {"c1", "c2"}

UpdIdle == [pc |-> "idle"]

NoUpserts == [upserts |-> 0, last |-> None]

\* The first half of update_job_status: get_job, and "return False" when it
\* gives nothing. The call notes how many upserts the index had seen.
UpdFetch(c) ==
    /\ upd[c].pc = "idle"
    /\ calls < MaxCalls
    /\ calls' = calls + 1
    /\ \E job_id \in JobIdArgs, a \in UpdateArgs, fail \in {"none", "fetch"} :
          LET job_data == GetJob(jobIndex, job_id, fail)
          IN  /\ upd' = [upd EXCEPT ![c] =
                            [pc |-> IF job_data = <<>> THEN "done" ELSE "fetched",
                             job_id |-> job_id, args |-> a,
                             job_data |-> job_data, seen |-> log.upserts,
                             value |-> FALSE]]
    /\ UNCHANGED <<rr, events, clock, jobIndex, ret, log, contentIndex,
                   created, scraped, ui>>

\* A variant of FetchedMetadata: the merge starts from the record as it is
\* stored at the time of the upsert.
RereadMetadata(c) == jobIndex[<<"jobs", upd[c].job_id>>]

\* job_data['metadata'].copy(): the metadata the call fetched.
FetchedMetadata(c) == upd[c].job_data[1]

\* The second half of update_job_status: the merge into the fetched copy, the
\* embedding and the upsert; an exception is caught and False returned.
UpdUpsert(c) ==
    /\ upd[c].pc = "fetched"
    /\ \E fail \in {"none", "embed", "upsert"} :
          IF fail = "none"
          THEN /\ jobIndex' = Upsert(jobIndex, "jobs", upd[c].job_id,
                                     Merge(FetchedMetadata(c), upd[c].args, clock))
               /\ upd' = [upd EXCEPT ![c].pc = "done", ![c].value = TRUE]
               /\ log' = [upserts |-> log.upserts + 1, last |-> c]
          ELSE /\ jobIndex' = jobIndex
               /\ upd' = [upd EXCEPT ![c].pc = "done", ![c].value = FALSE]
               /\ log' = log
    /\ UNCHANGED <<rr, events, clock, calls, ret, contentIndex, created,
                   scraped, ui>>

(***************************************************************************)
(* ContentManager                                                          *)
(***************************************************************************)

\* The URL as a number, one per URL (u1, u2 and u3).
UrlText(url) == IF url = "u1" THEN 1 ELSE IF url = "u2" THEN 2 ELSE 3

\* hashlib.md5(url.encode()).hexdigest()[:8]
UrlDigest(url) == Md5Hex(UrlText(url), UrlHashSpace)

\* A faulty SourceId: the digest of the URL is left out.
SourceIdOfJob(job_id, url) == job_id

\* f"{job_id}_{md5(url)[:8]}"
SourceId(job_id, url) == job_id \o "_" \o UrlDigest(url)

PreviewChars == 1000

\* A content is a sequence of blocks of BlockChars characters each.
\* content[:1000]
Preview(content) ==
    SubSeq(content, 1, Min(Len(content), PreviewChars \div BlockChars))

\* len(content)
ContentLength(content) == Len(content) * BlockChars

\* The source_metadata dictionary store_source builds.
SourceMetadata(job_id, url, title, content, credibility_score, scraped_at) ==
    [source_id |-> SourceId(job_id, url), job_id |-> job_id, url |-> url,
     title |-> title, content_preview |-> Preview(content),
     credibility_score |-> credibility_score, scraped_at |-> scraped_at,
     content_length |-> ContentLength(content), source_type |-> "web_article"]

\* The sources a caller stores: url, title, content and credibility score
\* (a decimal, as text; 0.5 is the default).
Sources ==
    {[url |-> "u1", title |-> "T1", content |-> <<"a">>,
      credibility_score |-> "0.5"],
     [url |-> "u1", title |-> "T2", content |-> <<"a", "b", "c">>,
      credibility_score |-> "1.0"],
     [url |-> "u2", title |-> "T1", content |-> <<>>,
      credibility_score |-> "0.5"],
     [url |-> "u3", title |-> "T3", content |-> <<"b", "c">>,
      credibility_score |-> "0.33"]}

\* The job ids the content calls are made with: a job id, and the id the
\* tests use, which is no job's.
ContentJobIds == {HexDigits[1], "test_job"}

\* store_source(job_id, url, title, content, credibility_score). An exception
\* from the embedding or from the upsert propagates and nothing is stored.
\* The result notes the record the upsert replaced, if any.
StoreSource(job_id, src, fail) ==
    LET source_id == SourceId(job_id, src.url)
        metadata == SourceMetadata(job_id, src.url, src.title, src.content,
                                   src.credibility_score, clock)
    IN  /\ ret = NoCall
        /\ calls < MaxCalls
        /\ calls' = calls + 1
        /\ IF fail = "none"
           THEN /\ contentIndex' = Upsert(contentIndex, NamespaceOf(job_id),
                                          source_id, metadata)
                /\ ret' = [op |-> "store_source", job_id |-> job_id,
                           url |-> src.url, raised |-> FALSE,
                           value |-> source_id,
                           replaced |-> Fetch(contentIndex, NamespaceOf(job_id),
                                              source_id)]
           ELSE /\ contentIndex' = contentIndex
                /\ ret' = [op |-> "store_source", job_id |-> job_id,
                           url |-> src.url, raised |-> TRUE, value |-> None,
                           replaced |-> <<>>]
        /\ UNCHANGED <<rr, events, clock, jobIndex, upd, log, created,
                       scraped, ui>>

StoreSourceCall ==
    \E job_id \in ContentJobIds, src \in Sources,
       fail \in {"none", "embed", "upsert"} : StoreSource(job_id, src, fail)

\* get_job_sources(job_id, limit): the lists it can return. A failure of the
\* embedding or of the query is caught: [].
GetJobSources(index, job_id, limit, fail) ==
    IF fail # "none" THEN {<<>>}
    ELSE {[i \in 1..Len(response) |-> response[i].metadata] :
          response \in Query(index, NamespaceOf(job_id), NoFilter, limit)}

GetJobSourcesCall ==
    /\ ret = NoCall
    /\ \E job_id \in ContentJobIds, limit \in Limits,
          fail \in {"none", "embed", "query"} :
          \E value \in GetJobSources(contentIndex, job_id, limit, fail) :
             ret' = [op |-> "get_job_sources", job_id |-> job_id,
                     limit |-> limit, fail |-> fail, value |-> value]
    /\ UNCHANGED <<rr, events, clock, jobIndex, calls, upd, log,
                   contentIndex, created, scraped, ui>>

\* The namespace a query without a namespace (None) reads: the default
\* namespace of the index.
DefaultNamespace == ""

\* A search_content without the try statement.
SearchContentUncaught(index, query, job_id, top_k, fail) ==
    IF fail # "none" THEN {Raised}
    ELSE {Returned([i \in 1..Len(response) |->
                       WithKey(response[i].metadata, "relevance_score",
                               response[i].score)]) :
          response \in Query(index,
                             IF Truthy(job_id) THEN NamespaceOf(job_id[1])
                             ELSE DefaultNamespace,
                             NoFilter, top_k)}

\* search_content(query, job_id, top_k): the matches of the job's namespace
\* (of the default namespace without a job id), each with its score. A
\* failure of the embedding or of the query is caught: [].
SearchContent(index, query, job_id, top_k, fail) ==
    IF fail # "none" THEN {Returned(<<>>)}
    ELSE {Returned([i \in 1..Len(response) |->
                       WithKey(response[i].metadata, "relevance_score",
                               response[i].score)]) :
          response \in Query(index,
                             IF Truthy(job_id) THEN NamespaceOf(job_id[1])
                             ELSE DefaultNamespace,
                             NoFilter, top_k)}

Queries == {"q1"}

SearchContentCall ==
    /\ ret = NoCall
    /\ \E query \in Queries, job_id \in {<<>>} \cup {<<j>> : j \in ContentJobIds},
          top_k \in Limits, fail \in {"none", "embed", "query"} :
          \E out \in SearchContent(contentIndex, query, job_id, top_k, fail) :
             ret' = [op |-> "search_content", query |-> query, job_id |-> job_id,
                     top_k |-> top_k, fail |-> fail, raised |-> out.raised,
                     value |-> out.value]
    /\ UNCHANGED <<rr, events, clock, jobIndex, calls, upd, log, contentIndex,
                   created, scraped, ui>>

(***************************************************************************)
(* The tools the agent calls (src/src/tools)                               *)
(***************************************************************************)

MaxResults == 2

\* dict.get(key, default) of a key that may be absent (<<>>) or hold <<v>>.
GetOr(opt, default) == IF opt = <<>> THEN default ELSE opt[1]

\* What the search API knows of a page: link, title and snippet, each of
\* which may be missing from the result; a snippet is a text in blocks.
Pages ==
    {[link |-> <<"u1">>, title |-> <<"T1">>, snippet |-> << <<"a", "b", "c">> >>],
     [link |-> <<"u2">>, title |-> <<>>, snippet |-> <<>>]}

\* The result at index i of the list: the page with its 'position' i, or
\* without the key.
OrganicResult(page, ranked, i) ==
    [link |-> page.link, title |-> page.title, snippet |-> page.snippet,
     position |-> IF ranked THEN <<i>> ELSE <<>>]

\* search.get_dict(): a dictionary without 'organic_results' (<<>>), or with
\* the list of the results, at most MaxResults of them.
RawResults ==
    {<<>>} \cup
    {<<[i \in 1..Len(pages) |-> OrganicResult(pages[i], ranked, i)]>> :
        pages \in UNION {[1..n -> Pages] : n \in 0..MaxResults},
        ranked \in BOOLEAN}

\* A Python float that is the quotient of two integers, kept exact as the
\* quotient (the floats 1/p of small positive p are distinct and ordered as
\* the quotients are).
Quotient(n, d) == [num |-> n, den |-> d]

\* A faulty RelevanceScore: the position itself.
RelevanceIsPosition(result) == Quotient(GetOr(result.position, 1), 1)

\* 1 / result.get('position', 1)
RelevanceScore(result) == Quotient(1, GetOr(result.position, 1))

\* _format_results(raw_results)
FormatResults(raw_results) ==
    IF raw_results = <<>> THEN <<>>
    ELSE [i \in 1..Len(raw_results[1]) |->
             LET result == raw_results[1][i]
             IN  [url |-> GetOr(result.link, ""),
                  title |-> GetOr(result.title, ""),
                  snippet |-> GetOr(result.snippet, <<>>),
                  content |-> GetOr(result.snippet, <<>>),
                  relevance_score |-> RelevanceScore(result)]]

\* A faulty ShouldStore: the job id is not looked at.
ShouldStoreWithOps(job_id, has_ops, formatted_results) ==
    has_ops /\ formatted_results # <<>>

\* "if job_id and self.pinecone_ops and formatted_results"
ShouldStore(job_id, has_ops, formatted_results) ==
    Truthy(job_id) /\ has_ops /\ formatted_results # <<>>

\* The store_source call _run makes for a result.
StoreCallOf(job_id, result) ==
    [job_id |-> job_id, url |-> result.url, title |-> result.title,
     content |-> result.snippet, credibility_score |-> result.relevance_score]

\* The content index after the store_source calls for the first n results.
RECURSIVE StoreResults(_, _, _, _, _)
StoreResults(index, job_id, results, n, now) ==
    IF n = 0 THEN index
    ELSE LET c == StoreCallOf(job_id, results[n])
         IN  Upsert(StoreResults(index, job_id, results, n - 1, now),
                    NamespaceOf(job_id), SourceId(job_id, c.url),
                    SourceMetadata(job_id, c.url, c.title, c.content,
                                   c.credibility_score, now))

\* The job ids the agent passes to the tool: none, the empty text, or a
\* job's id.
ToolJobIds == {<<>>, <<"">>, <<HexDigits[1]>>}

SearchRet(job_id, has_ops, raw_results, raised, value, stored) ==
    [op |-> "search_run", job_id |-> job_id, has_ops |-> has_ops,
     raw_results |-> raw_results, raised |-> raised, value |-> value,
     stored |-> stored]

\* SerpAPISearchTool._run(query, job_id, max_results) of a tool made with or
\* without pinecone_ops. The search raises (fail_at = -1), or the store_source
\* call for result number fail_at raises after the earlier ones were made,
\* or nothing fails (fail_at = 0); an exception propagates to the caller.
SearchRun(job_id, has_ops, raw_results, fail_at) ==
    LET formatted_results == FormatResults(raw_results)
        to_store == IF ShouldStore(job_id, has_ops, formatted_results)
                    THEN formatted_results ELSE <<>>
        id == GetOr(job_id, None)
        n == IF fail_at > 0 THEN fail_at - 1 ELSE Len(to_store)
    IN  /\ ret = NoCall
        /\ calls < MaxCalls
        /\ calls' = calls + 1
        /\ fail_at <= Len(to_store)
        /\ IF fail_at = -1
           THEN /\ contentIndex' = contentIndex
                /\ ret' = SearchRet(job_id, has_ops, raw_results, TRUE, None, <<>>)
           ELSE /\ contentIndex' = StoreResults(contentIndex, id, to_store, n, clock)
                /\ ret' = SearchRet(job_id, has_ops, raw_results, fail_at > 0,
                                    IF fail_at > 0 THEN None ELSE formatted_results,
                                    [i \in 1..n |-> StoreCallOf(id, to_store[i])])
        /\ UNCHANGED <<rr, events, clock, jobIndex, upd, log, created, scraped, ui>>

SearchRunCall ==
    \E job_id \in ToolJobIds, has_ops \in BOOLEAN, raw_results \in RawResults,
       fail_at \in -1..MaxResults :
       SearchRun(job_id, has_ops, raw_results, fail_at)

\* A faulty ScraperRun: the URL is left out of the text.
ScraperRunFixed(url) ==
    "Placeholder content. This tool is not fully implemented yet."

\* WebScraperTool._run(url)
ScraperRun(url) ==
    "Placeholder content for " \o url \o
    ". This tool is not fully implemented yet."

ScraperUrls == {"u1", "u2", "u3"}

\* A call of the scraper tool; the page keeps what it returned for the URL.
ScraperCall ==
    /\ ret = NoCall
    /\ calls < MaxCalls
    /\ calls' = calls + 1
    /\ \E url \in ScraperUrls :
          /\ ret' = [op |-> "scraper_run", url |-> url, value |-> ScraperRun(url)]
          /\ scraped' = [u \in DOMAIN scraped \cup {url} |->
                            IF u = url THEN ScraperRun(url) ELSE scraped[u]]
    /\ UNCHANGED <<rr, events, clock, jobIndex, upd, log, contentIndex,
                   created, ui>>

(***************************************************************************)
(* PineconeErrorHandler (src/src/utils/helpers.py)                         *)
(***************************************************************************)

\* update_job_status as a function of the job index: the index after the
\* call and the value returned.
UpdateOutcome(index, job_id, a, now, fail) ==
    LET job_data == GetJob(index, job_id, fail)
    IN  IF job_data = <<>> \/ fail \in {"embed", "upsert"}
        THEN [index |-> index, value |-> FALSE]
        ELSE [index |-> Upsert(index, "jobs", job_id, Merge(job_data[1], a, now)),
              value |-> TRUE]

\* ErrorType: the values of the enumeration.
ErrorTypes ==
    {"network_error", "api_error", "parsing_error", "pinecone_error",
     "agent_error", "timeout_error", "embedding_error"}

\* An empty dictionary.
EmptyDict == <<>>

\* ResearchError(error_type, message, details): "self.details = details or {}".
ResearchError(error_type, message, details) ==
    [research |-> TRUE, error_type |-> error_type, message |-> message,
     details |-> GetOr(details, EmptyDict), text |-> message,
     exception_type |-> "ResearchError"]

\* An exception that is no ResearchError, with its str() and its class name.
OtherError(text, exception_type) ==
    [research |-> FALSE, error_type |-> None, message |-> None,
     details |-> EmptyDict, text |-> text, exception_type |-> exception_type]

\* The errors handed to handle_error.
Errors ==
    {ResearchError(t, "e1", <<[url |-> "u1"]>>) : t \in ErrorTypes} \cup
    {ResearchError("pinecone_error", "", <<>>),
     OtherError("e2", "ValueError"), OtherError("", "KeyError")}

\* The error_info dictionary handle_error builds.
ErrorInfo(error) ==
    IF error.research
    THEN [type |-> error.error_type, message |-> error.message,
          details |-> error.details]
    ELSE [type |-> "unknown_error", message |-> error.text,
          details |-> [exception_type |-> error.exception_type]]

\* str.startswith
StartsWith(str, prefix) ==
    Len(str) >= Len(prefix) /\ SubSeq(str, 1, Len(prefix)) = prefix

\* The job ids handle_error is called with: those of update_job_status, the
\* id of an SQL job, and None.
HandlerJobIds == JobIdArgs \cup {"sql_1", None}

\* The body of the try statement: job_id.startswith raises AttributeError
\* when job_id is None; PineconeOperations has no sql_manager, so the branch
\* of an SQL job raises AttributeError; otherwise update_job_status is called
\* with status "error" and the message, and its result is dropped.
TryUpdate(index, job_id, message, now, fail) ==
    IF job_id = None \/ StartsWith(job_id, "sql_")
    THEN [raised |-> TRUE, index |-> index, value |-> FALSE]
    ELSE LET a == [status |-> "error", report |-> <<>>,
                   error_message |-> <<message>>, source_count |-> <<>>]
             out == UpdateOutcome(index, job_id, a, now, fail)
         IN  [raised |-> FALSE, index |-> out.index, value |-> out.value]

\* A handler without the except clause: the exception goes on.
PropagatesUncaught(raised) == raised

\* "except Exception as update_error: self.logger.error(...)": an exception
\* raised in the try statement is logged and goes no further.
PropagatesPastExcept(raised) == FALSE

\* handle_error(job_id, error). The result notes what the status update
\* failed at and what update_job_status returned.
HandleError(job_id, error, now, fail) ==
    LET error_info == ErrorInfo(error)
        attempt == TryUpdate(jobIndex, job_id, error_info.message, now, fail)
        raised == PropagatesPastExcept(attempt.raised)
    IN  /\ ret = NoCall
        /\ calls < MaxCalls
        /\ calls' = calls + 1
        /\ jobIndex' = attempt.index
        /\ clock' = now
        /\ ret' = [op |-> "handle_error", job_id |-> job_id, error |-> error,
                   fail |-> fail, update_raised |-> attempt.raised,
                   updated |-> attempt.value, raised |-> raised,
                   value |-> IF raised THEN None ELSE error_info]

HandleErrorCall ==
    /\ \E job_id \in HandlerJobIds, error \in Errors, now \in Now,
          fail \in {"none", "fetch", "embed", "upsert"} :
          HandleError(job_id, error, now, fail)
    /\ UNCHANGED <<rr, events, upd, log, contentIndex, created, scraped, ui>>

(***************************************************************************)
(* The Streamlit page (src/src/app.py)                                     *)
(***************************************************************************)

\* st.session_state as the page initialises it on the first run, and what
\* the status placeholder shows (nothing yet).
SessionInit ==
    [current_job_id |-> None, reported |-> <<>>, handler_raised |-> FALSE]

\* status_placeholder.success(f"Job {job_id} complete.") and
\* status_placeholder.error(f"Job {job_id} failed."): the outcome shown.
Reported(outcome, job_id) == <<[outcome |-> outcome, job_id |-> job_id]>>

\* str(e) of the exception the try block raised.
PageErrors == {"e1", ""}

\* The except clause of the handler, entered with the job index as the try
\* block left it and the session's current_job_id, which is tested by "if
\* 'current_job_id' in st.session_state and st.session_state.current_job_id".
\* pinecone_ops is bound when its construction succeeded in this run of the
\* script; the update through an unbound pinecone_ops raises NameError out
\* of the handler.
ExceptClause(index, current_job_id, bound, e, now, upd_fail) ==
    IF current_job_id = None \/ current_job_id = ""
    THEN [index |-> index, reported |-> <<>>, handler_raised |-> FALSE,
          updated |-> FALSE]
    ELSE IF ~bound
    THEN [index |-> index, reported |-> <<>>, handler_raised |-> TRUE,
          updated |-> FALSE]
    ELSE LET a == [status |-> "error", report |-> <<>>,
                   error_message |-> <<e>>, source_count |-> <<>>]
             out == UpdateOutcome(index, current_job_id, a, now, upd_fail)
         IN  [index |-> out.index, reported |-> Reported("failed", current_job_id),
              handler_raised |-> FALSE, updated |-> out.value]

\* What the try block can fail at: the construction of PineconeOperations,
\* create_research_job, or run_research; or at nothing.
PageFailures == {"none", "construct", "create", "run"}

\* One press of "Start Research" with a topic and all API keys: the try
\* block as far as it gets, then the except clause when it raised. The
\* value update_research_job returns is dropped. The result notes the job
\* this submission created and what the update returned.
StartResearch(topic, fail, upd_fail, result, e) ==
    LET job_id == GenerateJobId(topic, "research", clock)
        made == fail \in {"none", "run"}
        index1 == IF made
                  THEN Upsert(jobIndex, "jobs", job_id,
                              JobMetadata(job_id, topic, "anonymous", clock, clock))
                  ELSE jobIndex
        current == IF made THEN job_id ELSE ui.current_job_id
        done == IF fail = "none"
                THEN LET a == [status |-> "complete", report |-> <<result>>,
                               error_message |-> <<>>, source_count |-> <<>>]
                         out == UpdateOutcome(index1, job_id, a, clock, upd_fail)
                     IN  [index |-> out.index,
                          reported |-> Reported("complete", job_id),
                          handler_raised |-> FALSE, updated |-> out.value]
                ELSE ExceptClause(index1, current, fail # "construct", e, clock,
                                  upd_fail)
    IN  /\ ret = NoCall
        /\ calls < MaxCalls
        /\ calls' = calls + 1
        /\ jobIndex' = done.index
        /\ created' = IF made
                      THEN Append(created, [job_id |-> job_id, topic |-> topic,
                                            timestamp |-> clock])
                      ELSE created
        /\ ui' = [current_job_id |-> current, reported |-> done.reported,
                  handler_raised |-> done.handler_raised]
        /\ ret' = [op |-> "start_research", topic |-> topic, fail |-> fail,
                   upd_fail |-> upd_fail,
                   created_job |-> IF made THEN <<job_id>> ELSE <<>>,
                   updated |-> done.updated]

StartResearchCall ==
    /\ \E topic \in Topics, fail \in PageFailures,
          upd_fail \in {"none", "fetch", "embed", "upsert"},
          result \in Reports, e \in PageErrors :
          StartResearch(topic, fail, upd_fail, result, e)
    /\ UNCHANGED <<rr, events, clock, upd, log, contentIndex, scraped>>

\* A new browser session: the session state is initialised again.
NewSession ==
    /\ ret = NoCall
    /\ ui # SessionInit
    /\ ui' = SessionInit
    /\ UNCHANGED <<rr, events, clock, jobIndex, calls, ret, upd, log,
                   contentIndex, created, scraped>>

(***************************************************************************)
(* The specifications                                                      *)
(***************************************************************************)

\* The job index outlives the process: when PineconeOperations is constructed
\* it is empty, or holds what an earlier run stored, here a job that
\* create_job made and update_job_status completed with a report.
StoredJobs ==
    {EmptyIndex,
     Upsert(EmptyIndex, "jobs", GenerateJobId("t1", "research", 0),
            Merge(JobMetadata(GenerateJobId("t1", "research", 0), "t1", "u1", 0, 0),
                  [status |-> "complete", report |-> <<"r1">>,
                   error_message |-> <<>>, source_count |-> <<3>>], 0))}

InitCommon ==
    /\ rr = RRIdle
    /\ events = <<>>
    /\ clock = 0
    /\ jobIndex \in StoredJobs
    /\ calls = 0
    /\ ret = NoCall
    /\ upd = [c \in Clients |-> UpdIdle]
    /\ log = NoUpserts
    /\ contentIndex = EmptyIndex
    /\ created = <<>>
    /\ scraped = <<>>
    /\ ui = SessionInit

Init == InitCommon

NextRetry ==
    \/ RunResearch
    \/ AttemptCooldown
    \/ KickoffReturns
    \/ KickoffRaises
    \/ Except

SpecRetry == Init /\ [][NextRetry]_vars

NextJobs ==
    \/ Tick
    \/ Return
    \/ CreateResearchJob
    \/ UpdateResearchJob

SpecJobs == Init /\ [][NextJobs]_vars

NextHistory ==
    \/ Tick
    \/ Return
    \/ CreateResearchJob
    \/ ManagerJobHistory
    \/ OpsJobHistory

SpecHistory == Init /\ [][NextHistory]_vars

\* The caller takes the result of its update_job_status.
UpdReturn(c) ==
    /\ upd[c].pc = "done"
    /\ upd' = [upd EXCEPT ![c] = UpdIdle]
    /\ UNCHANGED <<rr, events, clock, jobIndex, calls, ret, log,
                   contentIndex, created, scraped, ui>>

NextUpdates ==
    \/ Tick
    \/ \E c \in Clients : UpdFetch(c)
    \/ \E c \in Clients : UpdUpsert(c)
    \/ \E c \in Clients : UpdReturn(c)

SpecUpdates == Init /\ [][NextUpdates]_vars

NextContent ==
    \/ Tick
    \/ Return
    \/ StoreSourceCall
    \/ GetJobSourcesCall

SpecContent == Init /\ [][NextContent]_vars

NextLifecycle ==
    \/ Tick
    \/ Return
    \/ CreateResearchJob
    \/ UpdateResearchJob
    \/ OpsJobHistory
    \/ SearchJobsByTopicCall
    \/ CleanupOldData

\* The job index of a new deployment is empty.
InitEmpty == InitCommon /\ jobIndex = EmptyIndex

SpecLifecycle == InitEmpty /\ [][NextLifecycle]_vars

\* The query operations read no clock; the session's time stands still.
NextQueries ==
    \/ Return
    \/ CreateResearchJob
    \/ StoreSourceCall
    \/ GetJobCall
    \/ ManagerJobHistory
    \/ SearchJobsByTopicCall
    \/ GetJobSourcesCall
    \/ SearchContentCall

SpecQueries == Init /\ [][NextQueries]_vars

NextPage ==
    \/ Tick
    \/ Return
    \/ StartResearchCall
    \/ NewSession

SpecPage == Init /\ [][NextPage]_vars

NextErrors ==
    \/ Tick
    \/ Return
    \/ CreateResearchJob
    \/ HandleErrorCall

SpecErrors == Init /\ [][NextErrors]_vars

\* The tools read no clock of their own; the session's time stands still.
NextTools ==
    \/ Return
    \/ SearchRunCall
    \/ ScraperCall

SpecTools == Init /\ [][NextTools]_vars

(***************************************************************************)
(* Properties of run_research (SpecRetry)                                  *)
(***************************************************************************)

\* The events of one kind, in order.
EventsOf(kind) == SelectSeq(events, LAMBDA ev : ev.kind = kind)

\* The two classes of error the specification names, read off the error text.
RateLimitError(e) == e.rate_limit \/ e.ratelimit
EmptyResponseError(e) == e.none_or_empty \/ e.invalid_response
RetryableError(e) == RateLimitError(e) \/ EmptyResponseError(e)

\* C1: with max attempts 2, one invocation calls kickoff at most twice; when
\* the first and the second attempt both fail with a rate-limit or
\* empty/invalid-response error, the second attempt's error is raised to the
\* caller: nothing follows the second failure, no cooldown and no third
\* attempt, and run_research does not return.
C1_RetryBound ==
    LET fails == EventsOf("fail")
    IN  /\ Len(EventsOf("kickoff")) <= 2
        /\ (Len(fails) = 2 /\ RetryableError(fails[1].error)
                           /\ RetryableError(fails[2].error))
           => /\ events[Len(events)] = fails[2]
              /\ rr.pc \in {"except", "raised"}
              /\ rr.error = fails[2].error

C1_Witness ==
    LET fails == EventsOf("fail")
    IN  /\ rr.pc = "raised"
        /\ Len(EventsOf("kickoff")) = 2
        /\ Len(fails) = 2
        /\ RateLimitError(fails[1].error)
        /\ RateLimitError(fails[2].error)

\* C2: a failure that is neither a rate-limit nor an empty/invalid-response
\* error is never retried: it is the last event of the run, whichever attempt
\* it occurs on, and it is the error raised; and an attempt after the first is
\* made only after a rate-limit or empty/invalid-response failure of the
\* attempt before it, and only within the attempt budget.
C2_OtherErrorsPropagate ==
    /\ \A i \in 1..Len(events) :
          (events[i].kind = "fail" /\ ~RetryableError(events[i].error))
          => /\ i = Len(events)
             /\ rr.pc \in {"except", "raised"}
             /\ rr.error = events[i].error
    /\ \A i \in 1..Len(events) :
          (events[i].kind = "kickoff" /\ events[i].attempt > 0)
          => /\ events[i].attempt < max_retries
             /\ \E j \in 1..(i - 1) :
                   /\ events[j].kind = "fail"
                   /\ events[j].attempt = events[i].attempt - 1
                   /\ RetryableError(events[j].error)

C2_Witness ==
    /\ rr.pc = "raised"
    /\ rr.attempt = 1
    /\ ~RetryableError(rr.error)
    /\ Len(EventsOf("kickoff")) = 2

(***************************************************************************)
(* Properties of the job manager (SpecJobs)                                *)
(***************************************************************************)

JobKey(job_id) == <<"jobs", job_id>>

\* The step is a call of `op`: the call's result appears.
IsCall(op) == ret = NoCall /\ ret'.op = op

\* C3: update_job_status with a job id that has no record in the 'jobs'
\* namespace returns False and leaves both indexes as they were: no record is
\* created for the id and none is modified.
C3_UpdateMissingJob ==
    [][(IsCall("update_job_status") /\ JobKey(ret'.job_id) \notin DOMAIN jobIndex)
       => /\ ret'.value = FALSE
          /\ jobIndex' = jobIndex
          /\ contentIndex' = contentIndex]_vars

C3_Witness ==
    /\ ret.op = "update_job_status"
    /\ JobKey(ret.job_id) \notin DOMAIN jobIndex
    /\ ret.value = FALSE
    /\ jobIndex # EmptyIndex

\* C4: when create_research_job(topic, user_id) returns, it returns a job id
\* and the namespace "job_" followed by that id, and the 'jobs' namespace
\* holds a record under the id with the given topic and user id, status
\* 'pending', an empty report, an empty error message and source count 0.
C4_CreateStoresPendingJob ==
    (ret.op = "create_job" /\ ~ret.raised)
    => /\ ret.value.job_id # None
       /\ ret.value.namespace = "job_" \o ret.value.job_id
       /\ JobKey(ret.value.job_id) \in DOMAIN jobIndex
       /\ LET job == jobIndex[JobKey(ret.value.job_id)]
          IN  /\ job.job_id = ret.value.job_id
              /\ job.topic = ret.topic
              /\ job.user_id = ret.user_id
              /\ job.status = "pending"
              /\ job.report = ""
              /\ job.error_message = ""
              /\ job.source_count = 0

C4_Witness ==
    /\ ret.op = "create_job"
    /\ ~ret.raised
    /\ ret.user_id = "u1"
    /\ Cardinality(DOMAIN jobIndex) = 2

\* C5: any two calls of create_job with the same topic produce two distinct
\* job ids, calls made at the same clock reading included.
C5_DistinctJobIds ==
    \A i, j \in 1..Len(created) :
        (i < j /\ created[i].topic = created[j].topic)
        => created[i].job_id # created[j].job_id

\* C8 as stated: a successful update stores the given status and every
\* supplied report, error message and source count, and keeps every other
\* field of the record; the record stays under its id.
C8_MergeEverySupplied ==
    [][(IsCall("update_job_status") /\ ret'.value = TRUE)
       => /\ JobKey(ret'.job_id) \in DOMAIN jobIndex
          /\ DOMAIN jobIndex' = DOMAIN jobIndex
          /\ LET old == jobIndex[JobKey(ret'.job_id)]
                 new == jobIndex'[JobKey(ret'.job_id)]
                 a == ret'.args
             IN  /\ new.status = a.status
                 /\ new.report =
                       IF a.report # <<>> THEN a.report[1] ELSE old.report
                 /\ new.error_message =
                       IF a.error_message # <<>> THEN a.error_message[1]
                       ELSE old.error_message
                 /\ new.source_count =
                       IF a.source_count # <<>> THEN a.source_count[1]
                       ELSE old.source_count
                 /\ \A f \in {"job_id", "topic", "user_id", "job_type",
                              "created_at", "namespace"} : new[f] = old[f]]_vars

\* A report or error message counts as given when it is a non-empty string.
Given(opt) == opt # <<>> /\ opt[1] # ""

\* C8, amended: a successful update stores the given status, every supplied
\* non-empty report and error message and every supplied source count, and
\* keeps every other field of the record (a report or error message that is
\* not supplied, or supplied as the empty string, included); the record
\* stays under its id and no other record changes.
C8_MergeSupplied ==
    [][(IsCall("update_job_status") /\ ret'.value = TRUE)
       => /\ JobKey(ret'.job_id) \in DOMAIN jobIndex
          /\ DOMAIN jobIndex' = DOMAIN jobIndex
          /\ \A k \in DOMAIN jobIndex :
                k # JobKey(ret'.job_id) => jobIndex'[k] = jobIndex[k]
          /\ LET old == jobIndex[JobKey(ret'.job_id)]
                 new == jobIndex'[JobKey(ret'.job_id)]
                 a == ret'.args
             IN  /\ new.status = a.status
                 /\ new.report =
                       IF Given(a.report) THEN a.report[1] ELSE old.report
                 /\ new.error_message =
                       IF Given(a.error_message) THEN a.error_message[1]
                       ELSE old.error_message
                 /\ new.source_count =
                       IF a.source_count # <<>> THEN a.source_count[1]
                       ELSE old.source_count
                 /\ \A f \in {"job_id", "topic", "user_id", "job_type",
                              "created_at", "namespace",
                              "processing_time_seconds"} : new[f] = old[f]]_vars

\* An update of a job with a report and a source count that supplied only a
\* status and an error message has returned True.
C8_Witness ==
    /\ ret.op = "update_job_status"
    /\ ret.value = TRUE
    /\ ret.args.report = <<>>
    /\ ret.args.error_message = <<"e1">>
    /\ jobIndex[JobKey(ret.job_id)].report = "r1"
    /\ jobIndex[JobKey(ret.job_id)].source_count = 3
    /\ jobIndex[JobKey(ret.job_id)].error_message = "e1"

(***************************************************************************)
(* Properties of concurrent updates (SpecUpdates)                          *)
(***************************************************************************)

\* Both clients' calls have ended, for the same job, and they interleaved:
\* both fetched at the same count of upserts and both upserted since.
Interleaved ==
    /\ \A c \in Clients : upd[c].pc = "done"
    /\ upd["c1"].job_id = upd["c2"].job_id
    /\ upd["c1"].job_data # <<>> /\ upd["c2"].job_data # <<>>
    /\ upd["c1"].seen = upd["c2"].seen
    /\ log.upserts = upd["c1"].seen + 2

LastWriter == log.last
FirstWriter == CHOOSE c \in Clients : c # log.last

\* The optional fields of an update and whether an argument sets them.
Sets(a, f) ==
    IF f = "source_count" THEN a[f] # <<>> ELSE a[f] # <<>> /\ a[f][1] # ""

\* C6: when two updates of one job interleave (both fetch before either
\* upserts) both return True, and the record is the last writer's merge of
\* the record it fetched: it has the last writer's status, and a report,
\* error message or source count that only the first writer set is lost, the
\* field having the value it had before both updates.
C6_LostUpdate ==
    Interleaved
    => LET w == upd[LastWriter]
           f == upd[FirstWriter]
           job == jobIndex[JobKey(w.job_id)]
       IN  /\ w.value = TRUE /\ f.value = TRUE
           /\ f.job_data = w.job_data
           /\ job.status = w.args.status
           /\ \A x \in {"report", "error_message", "source_count"} :
                 /\ Sets(w.args, x) => job[x] = w.args[x][1]
                 /\ ~Sets(w.args, x) => job[x] = w.job_data[1][x]

\* Two interleaved updates have ended, and the error message the first writer
\* set is not in the record.
C6_Witness ==
    /\ Interleaved
    /\ Sets(upd[FirstWriter].args, "error_message")
    /\ ~Sets(upd[LastWriter].args, "error_message")
    /\ upd[FirstWriter].value = TRUE
    /\ jobIndex[JobKey(upd["c1"].job_id)].error_message
          # upd[FirstWriter].args.error_message[1]

(***************************************************************************)
(* Properties of the job history (SpecHistory)                             *)
(***************************************************************************)

IsHistory == ret.op \in {"get_job_history", "ops_get_job_history"}

\* The list is at most `limit` stored research jobs, in descending order of
\* created_at.
HistoryOfStoredJobs ==
    /\ Len(ret.value) <= ret.limit
    /\ \A i \in 1..Len(ret.value) :
          LET job == ret.value[i]
          IN  /\ JobKey(job.job_id) \in DOMAIN jobIndex
              /\ WithoutKey(job, "score") = jobIndex[JobKey(job.job_id)]
              /\ job.job_type = "research"
    /\ \A i \in 1..(Len(ret.value) - 1) :
          ret.value[i].created_at >= ret.value[i + 1].created_at

\* C7 as stated: get_job_history(user_id, limit) returns at most limit
\* records, each of them a stored research job and, when a user id is given,
\* a job of that user, in descending order of created_at.
C7_HistoryOfGivenUser ==
    IsHistory
    => /\ HistoryOfStoredJobs
       /\ ret.user_id # <<>>
          => \A i \in 1..Len(ret.value) : ret.value[i].user_id = ret.user_id[1]

\* C7, amended: get_job_history(user_id, limit) returns at most limit
\* records, each of them a stored research job and, when a non-empty user id
\* is given, a job of that user, in descending order of created_at.
C7_HistoryOrdered ==
    IsHistory
    => /\ HistoryOfStoredJobs
       /\ (ret.user_id # <<>> /\ ret.user_id # <<"">>)
          => \A i \in 1..Len(ret.value) : ret.value[i].user_id = ret.user_id[1]

\* The history of user u1 has two jobs created at different times, and the
\* index holds another user's job.
C7_Witness ==
    /\ IsHistory
    /\ ret.user_id = <<"u1">>
    /\ Len(ret.value) = 2
    /\ ret.value[1].created_at > ret.value[2].created_at
    /\ \E k \in DOMAIN jobIndex : jobIndex[k].user_id # "u1"

(***************************************************************************)
(* Properties of the content manager (SpecContent)                         *)
(***************************************************************************)

\* The fields of a source the specification calls immutable.
SameSource(old, new) ==
    /\ new.title = old.title
    /\ new.content_preview = old.content_preview
    /\ new.credibility_score = old.credibility_score
    /\ new.scraped_at = old.scraped_at

\* C9 as stated: once store_source has stored a source, no operation changes
\* the record's title, content preview, credibility score or scrape
\* timestamp.
C9_SourceImmutable ==
    [][\A k \in DOMAIN contentIndex :
          /\ k \in DOMAIN contentIndex'
          /\ SameSource(contentIndex[k], contentIndex'[k])]_vars

\* C9, amended: a stored source stays stored, and its record changes only
\* by a later store_source call for the same job whose URL has the same md5
\* prefix as the record's (the same URL in particular), which overwrites it.
C9_SourceOverwrittenOnlyBySameUrl ==
    [][\A k \in DOMAIN contentIndex :
          /\ k \in DOMAIN contentIndex'
          /\ contentIndex'[k] # contentIndex[k]
             => /\ IsCall("store_source")
                /\ ~ret'.raised
                /\ ret'.job_id = contentIndex[k].job_id
                /\ UrlText(ret'.url) % UrlHashSpace
                      = UrlText(contentIndex[k].url) % UrlHashSpace]_vars

\* store_source has stored a URL again for the same job, later, and the
\* record it replaced had another title.
C9_Witness ==
    /\ ret.op = "store_source"
    /\ ~ret.raised
    /\ ret.replaced # <<>>
    /\ ret.replaced[1].url = ret.url
    /\ ret.replaced[1].job_id = ret.job_id
    /\ \E k \in DOMAIN contentIndex :
          /\ k[2] = ret.value
          /\ contentIndex[k].title # ret.replaced[1].title
          /\ contentIndex[k].scraped_at > ret.replaced[1].scraped_at

\* C10: every record get_job_sources(job_id, limit) returns was stored
\* with that job id, and it returns at most limit records.
C10_SourcesOfTheJob ==
    ret.op = "get_job_sources"
    => /\ Len(ret.value) <= ret.limit
       /\ \A i \in 1..Len(ret.value) :
             /\ ret.value[i].job_id = ret.job_id
             /\ \E k \in DOMAIN contentIndex : contentIndex[k] = ret.value[i]

\* Sources of the job were returned while another job has sources too.
C10_Witness ==
    /\ ret.op = "get_job_sources"
    /\ Len(ret.value) > 0
    /\ \E k \in DOMAIN contentIndex : contentIndex[k].job_id # ret.job_id

(***************************************************************************)
(* Properties of the tools (SpecTools)                                     *)
(***************************************************************************)

\* _run has made one store_source call for each result it returns, in order,
\* with the job id and the result's url, title, snippet and relevance; the
\* records are in the job's namespace of the content index and nothing
\* outside that namespace has changed.
StoredEachResult(job_id) ==
    /\ Len(ret'.stored) = Len(ret'.value)
    /\ \A i \in 1..Len(ret'.value) :
          /\ ret'.stored[i].job_id = job_id
          /\ ret'.stored[i].url = ret'.value[i].url
          /\ ret'.stored[i].title = ret'.value[i].title
          /\ ret'.stored[i].content = ret'.value[i].snippet
          /\ ret'.stored[i].credibility_score = ret'.value[i].relevance_score
          /\ \E k \in DOMAIN contentIndex' :
                /\ k[1] = "job_" \o job_id
                /\ contentIndex'[k].job_id = job_id
                /\ UrlText(contentIndex'[k].url) % UrlHashSpace
                      = UrlText(ret'.value[i].url) % UrlHashSpace
    /\ \A k \in DOMAIN contentIndex :
          /\ k \in DOMAIN contentIndex'
          /\ k[1] # "job_" \o job_id => contentIndex'[k] = contentIndex[k]
    /\ \A k \in DOMAIN contentIndex' \ DOMAIN contentIndex :
          k[1] = "job_" \o job_id

\* C11 as stated: _run returns the formatted results; with a job id supplied
\* (and pinecone_ops set) it has stored each of them through store_source
\* under that job id, and with no job id supplied it has written nothing.
C11_StoresWhenJobIdSupplied ==
    [][(IsCall("search_run") /\ ~ret'.raised)
       => /\ ret'.value = FormatResults(ret'.raw_results)
          /\ IF ret'.job_id # <<>> /\ ret'.has_ops
             THEN StoredEachResult(ret'.job_id[1])
             ELSE contentIndex' = contentIndex]_vars

\* C11, amended: _run returns the formatted results; with a non-empty job id
\* supplied (and pinecone_ops set) it has stored each of them through
\* store_source under that job id, and with no job id, or the empty one,
\* it has written nothing.
C11_StoresWhenJobIdNonEmpty ==
    [][(IsCall("search_run") /\ ~ret'.raised)
       => /\ ret'.value = FormatResults(ret'.raw_results)
          /\ IF Given(ret'.job_id) /\ ret'.has_ops
             THEN StoredEachResult(ret'.job_id[1])
             ELSE contentIndex' = contentIndex]_vars

\* A search with a job id has returned two results and stored both.
C11_Witness ==
    /\ ret.op = "search_run"
    /\ ~ret.raised
    /\ ret.job_id = <<HexDigits[1]>>
    /\ Len(ret.value) = 2
    /\ Len(ret.stored) = 2
    /\ Cardinality(DOMAIN contentIndex) = 2

\* a < b for quotients of positive denominators.
QuotientLess(a, b) == a.num * b.den < b.num * a.den

\* The organic results carry their positions 1..k.
Positioned(raw_results) ==
    /\ raw_results # <<>>
    /\ \A i \in 1..Len(raw_results[1]) : raw_results[1][i].position = <<i>>

\* C15: for organic results at positions 1..k, the relevance_score of the
\* result at position p is 1/p, so the relevance strictly decreases with the
\* position and position 1 has a higher relevance than position 2.
C15_RelevanceIsInversePosition ==
    (ret.op = "search_run" /\ ~ret.raised /\ Positioned(ret.raw_results))
    => /\ \A p \in 1..Len(ret.value) :
             ret.value[p].relevance_score.num * p
                = ret.value[p].relevance_score.den
       /\ \A p, q \in 1..Len(ret.value) :
             p < q => QuotientLess(ret.value[q].relevance_score,
                                   ret.value[p].relevance_score)

\* Results at positions 1 and 2 were formatted.
C15_Witness ==
    /\ ret.op = "search_run"
    /\ ~ret.raised
    /\ Positioned(ret.raw_results)
    /\ Len(ret.value) >= 2

\* C13 as stated: the scraper returns the same string for any two URLs.
C13_SamePlaceholder ==
    \A u, v \in DOMAIN scraped : scraped[u] = scraped[v]

\* C13, amended: the scraper returns a placeholder string that names the
\* URL, "Placeholder content for <url>. This tool is not fully implemented
\* yet.": the same string whenever the URL is the same, and different
\* strings for different URLs.
C13_PlaceholderNamesUrl ==
    [][IsCall("scraper_run")
       => /\ SubSeq(ret'.value, 1, 24) = "Placeholder content for "
          /\ ret'.url \in DOMAIN scraped => ret'.value = scraped[ret'.url]
          /\ \A u \in DOMAIN scraped :
                u # ret'.url => ret'.value # scraped[u]]_vars

\* The scraper was called with one URL and then with another.
C13_Witness ==
    /\ ret.op = "scraper_run"
    /\ Cardinality(DOMAIN scraped) = 2

(***************************************************************************)
(* Properties of handle_error (SpecErrors)                                 *)
(***************************************************************************)

\* C12: handle_error never raises; it returns the error info (the kind tag,
\* message and details of a ResearchError, and kind 'unknown_error' with the
\* text of any other error); when the status update succeeds the job's record
\* has status 'error' (with the message, when it is not empty) and no other
\* record changes; when the update fails, by an exception or by returning
\* False, the index is left as it was and the error info is still returned.
C12_HandleErrorNeverRaises ==
    [][IsCall("handle_error")
       => LET error == ret'.error
              info == ret'.value
          IN  /\ ~ret'.raised
              /\ info.type = IF error.research THEN error.error_type
                             ELSE "unknown_error"
              /\ info.message = error.text
              /\ error.research => info.details = error.details
              /\ IF ret'.updated
                 THEN /\ JobKey(ret'.job_id) \in DOMAIN jobIndex
                      /\ DOMAIN jobIndex' = DOMAIN jobIndex
                      /\ jobIndex'[JobKey(ret'.job_id)].status = "error"
                      /\ error.text # ""
                         => jobIndex'[JobKey(ret'.job_id)].error_message
                               = error.text
                      /\ \A k \in DOMAIN jobIndex :
                            k # JobKey(ret'.job_id) => jobIndex'[k] = jobIndex[k]
                 ELSE jobIndex' = jobIndex
              /\ (ret'.fail = "none" /\ JobKey(ret'.job_id) \in DOMAIN jobIndex)
                 => ret'.updated]_vars

\* handle_error returned the error info although the status update raised
\* (the SQL branch), and, in another call, after it set a job to 'error'.
C12_Witness ==
    /\ ret.op = "handle_error"
    /\ ~ret.raised
    /\ ret.update_raised
    /\ ret.job_id = "sql_1"
    /\ ret.value.type = "unknown_error"
    /\ \E k \in DOMAIN jobIndex : jobIndex[k].status = "error"

(***************************************************************************)
(* Properties of the job index over all operations (SpecLifecycle)         *)
(***************************************************************************)

\* C14: a job record is never deleted: over create, update, history, search
\* and cleanup_old_data, no record leaves the job index, so every job id
\* that was created has a record in the 'jobs' namespace; and
\* cleanup_old_data leaves both indexes as they were.
C14_JobsNeverDeleted ==
    [][/\ DOMAIN jobIndex \subseteq DOMAIN jobIndex'
       /\ \A i \in 1..Len(created') :
             JobKey(created'[i].job_id) \in DOMAIN jobIndex'
       /\ IsCall("cleanup_old_data")
          => jobIndex' = jobIndex /\ contentIndex' = contentIndex]_vars

\* cleanup_old_data has run with a cutoff later than the creation of a job
\* that is stored.
C14_Witness ==
    /\ ret.op = "cleanup_old_data"
    /\ created # <<>>
    /\ \E k \in DOMAIN jobIndex : jobIndex[k].created_at < ret.cutoff_date

(***************************************************************************)
(* Properties of the query operations (SpecQueries)                        *)
(***************************************************************************)

IsList(value) == DOMAIN value = 1..Len(value)

\* C17: search_content, get_job_sources, get_job_history and
\* search_jobs_by_topic do not raise and return a list, the empty list when
\* the embedding or the query fails; get_job returns None when the fetch
\* fails, as it does for a job that is not stored, and the record otherwise.
C17_QueriesNeverRaise ==
    /\ ret.op \in {"search_content", "search_jobs_by_topic"}
       => /\ ~ret.raised
          /\ IsList(ret.value)
          /\ ret.fail # "none" => ret.value = <<>>
    /\ ret.op \in {"get_job_history", "get_job_sources"}
       => /\ IsList(ret.value)
          /\ ret.fail # "none" => ret.value = <<>>
    /\ ret.op = "get_job"
       => /\ ret.fail = "fetch" => ret.value = <<>>
          /\ JobKey(ret.job_id) \notin DOMAIN jobIndex => ret.value = <<>>
          /\ (ret.fail = "none" /\ JobKey(ret.job_id) \in DOMAIN jobIndex)
             => ret.value = <<jobIndex[JobKey(ret.job_id)]>>

\* The query of search_content failed although the job has a source stored:
\* the empty list came back.
C17_Witness ==
    /\ ret.op = "search_content"
    /\ ret.fail = "query"
    /\ ret.value = <<>>
    /\ ret.job_id # <<>>
    /\ \E k \in DOMAIN contentIndex : contentIndex[k].job_id = ret.job_id[1]

(***************************************************************************)
(* The cooldowns of run_research (SpecRetry)                               *)
(***************************************************************************)

\* C18: the first kickoff is preceded by the initial cooldown only, and
\* between the failure of an attempt and the kickoff of the next attempt
\* the retry cooldown is applied exactly once.
C18_OneRetryCooldown ==
    \A j \in 1..Len(events) :
       events[j].kind = "kickoff"
       => IF events[j].attempt = 0
          THEN SubSeq(events, 1, j - 1) = <<Sleep(initial_cooldown)>>
          ELSE \E i \in 1..(j - 1) :
                  /\ events[i].kind = "fail"
                  /\ events[i].attempt = events[j].attempt - 1
                  /\ SubSeq(events, i + 1, j - 1) = <<Sleep(retry_delay)>>

(***************************************************************************)
(* Properties of the page (SpecPage)                                       *)
(***************************************************************************)

\* C19: a submission that fails marks as 'error' only the job that this
\* submission created: a job of an earlier submission is not changed to
\* 'error' by it; and the failure handler does not raise.
C19_ErrorOnlyOwnJob ==
    [][IsCall("start_research")
       => /\ ~ui'.handler_raised
          /\ \A k \in DOMAIN jobIndex :
                (jobIndex[k].status # "error" /\ jobIndex'[k].status = "error")
                => ret'.created_job = <<k[2]>>]_vars

\* C20: the outcome the page reports agrees with the stored job: after
\* 'Job <id> complete' the record of the job has status 'complete', after
\* 'Job <id> failed' it has status 'error', and the job of a finished
\* submission is not left 'pending'.
C20_ReportedIsStored ==
    ret.op = "start_research"
    => /\ \A i \in 1..Len(ui.reported) :
             /\ JobKey(ui.reported[i].job_id) \in DOMAIN jobIndex
             /\ jobIndex[JobKey(ui.reported[i].job_id)].status
                   = IF ui.reported[i].outcome = "complete" THEN "complete"
                     ELSE "error"
       /\ \A i \in 1..Len(ret.created_job) :
             jobIndex[JobKey(ret.created_job[i])].status # "pending"

====
